---------------------------- MODULE Spec2Model ----------------------------
(*************************************************************************)
(* App Attest verification scripts: scripts/verify_assertion.py and      *)
(* scripts/verify_attestation.py.                                        *)
(*                                                                       *)
(* Bytes.  A byte string is a sequence of bytes.  A byte is a tuple:     *)
(*   <<n>>      a concrete byte with value n in 0..255                   *)
(*   <<m, i>>   byte i (1..32) of SHA-256(m), m a byte string            *)
(* SHA-256 is the library primitive hashlib.sha256; it is modelled as a  *)
(* collision-free symbolic function, so two digests are equal exactly    *)
(* when their inputs are.                                                *)
(*************************************************************************)
EXTENDS Integers, Sequences, FiniteSets, TLC

\* ------------------------------------------------------------ bounds
MaxCounter == 3        \* signCount / stored counter values 0..MaxCounter
BigCounter == 16777473 \* one signCount that fills three of the four bytes
MaxCalls == 3          \* runs of main per behaviour
MaxChain == 3          \* certificates in attStmt.x5c: 0..MaxChain

\* ------------------------------------------------------- byte strings
B(n) == <<n>>
IsConcrete(b) == Len(b) = 1
V(b) == b[1]
Bytes(ns) == [i \in 1..Len(ns) |-> B(ns[i])]
Rep(n, k) == [i \in 1..k |-> B(n)]

\* Python slice b[lo:hi] (0-based, end exclusive, clipped to the buffer)
Slice(b, lo, hi) ==
    LET h == IF hi > Len(b) THEN Len(b) ELSE hi
    IN  IF lo >= h THEN <<>> ELSE SubSeq(b, lo + 1, h)

\* hashlib.sha256(m).digest(): 32 bytes
Sha256(m) == [i \in 1..32 |-> <<m, i>>]

\* struct.pack('>I', n)
U32BE(n) == << B((n \div 16777216) % 256), B((n \div 65536) % 256),
               B((n \div 256) % 256), B(n % 256) >>

\* struct.unpack('>I', b)[0]; struct.error unless len(b) = 4
UnpackU32Raises(b) == Len(b) # 4
UnpackU32(b) == V(b[1]) * 16777216 + V(b[2]) * 65536 + V(b[3]) * 256 + V(b[4])

\* struct.pack('>H', n)
U16BE(n) == << B((n \div 256) % 256), B(n % 256) >>

\* struct.unpack('>H', b)[0]; struct.error unless len(b) = 2
UnpackU16Raises(b) == Len(b) # 2
UnpackU16(b) == V(b[1]) * 256 + V(b[2])


\* ---------------------------------------------------------- assertion
\* The application identifier whose SHA-256 is the rpIdHash ("team.bundle").
AppId == Bytes(<<116, 46, 98>>)

\* authenticatorData of an assertion: rpIdHash(32) || flags(1) || signCount(4),
\* cut to ad_len bytes (a truncated buffer when ad_len < 37).
AssertionAuthData(sign_count, ad_len) ==
    Slice(Sha256(AppId) \o <<B(0)>> \o U32BE(sign_count), 0, ad_len)

\* json.dumps({'passportHash': h, 'evmAddress': e}, separators=(',', ':')).encode()
\* with the two field values standing as one byte each.
RequestData(passport_hash, evm_address) ==
    Bytes(<<123, passport_hash, 44, evm_address, 125>>)

\* nonce = SHA256(authData || SHA256(requestData))
AssertionNonce(auth_data, request_data) ==
    Sha256(auth_data \o Sha256(request_data))

\* An ECDSA signature is the pair (signing key, signed message); the library's
\* public_key.verify accepts it exactly for that key and that message.
Signature(key, msg) == [key |-> key, msg |-> msg]
EcdsaValid(public_key, signature, msg) ==
    signature.key = public_key /\ signature.msg = msg

\* An assertion request, as the fields that decide the code's path:
\*   keys        which of passportHash / evmAddress / assertion signed_data holds
\*   b64         base64.b64decode accepts the assertion string
\*   cbor        what cbor2.loads yields: "map", "list" (not a map), "bad" (raises)
\*   has_sig, has_ad   the map holds 'signature' / 'authenticatorData'
\*   ad_len      length of authenticatorData
\*   sign_count  the counter encoded at bytes 33..36
\*   sig_key, sig_count, sig_hash   the signature: its key, and the signCount
\*               and passportHash of the data it was made over
\*   passport_hash   the passportHash carried by signed_data
Keys == {"all", "no_passportHash", "no_evmAddress", "no_assertion"}
CborKinds == {"map", "list", "bad"}
PublicKeys == {"enrolled", "other", "rsa", "bad_der"}

WellFormed(a) ==
    /\ a.keys = "all" /\ a.b64 /\ a.cbor = "map"
    /\ a.has_sig /\ a.has_ad /\ a.ad_len >= 37

auth_data_of(a) == AssertionAuthData(a.sign_count, a.ad_len)
signature_of(a) ==
    Signature(a.sig_key,
              AssertionNonce(AssertionAuthData(a.sig_count, 37),
                             RequestData(a.sig_hash, 7)))

\* line 81: counter <= stored_counter
ReplayLax(counter, stored_counter) == counter < stored_counter
ReplayDetected(counter, stored_counter) == counter <= stored_counter

\* lines 53-101.  The result (ok, counter, message) with two ghost fields:
\* key_loaded (line 93 was reached) and sig_checked (the library compared the
\* signature with the nonce at line 94).
Res(ok, counter, msg, key_loaded, sig_checked) ==
    [ok |-> ok, counter |-> counter, msg |-> msg,
     key_loaded |-> key_loaded, sig_checked |-> sig_checked]

\* lines 84-96: the payload, the nonce, the key and the signature.
CheckSignatureKeepsCounter(a, public_key, stored_counter, auth_data, counter) ==
    IF public_key = "enrolled"
       /\ EcdsaValid(public_key, signature_of(a),
                     AssertionNonce(auth_data, RequestData(a.passport_hash, 7)))
    THEN Res(TRUE, counter, "valid", TRUE, TRUE)
    ELSE Res(FALSE, counter, "invalid_signature", TRUE, TRUE)
CheckSignature(a, public_key, stored_counter, auth_data, counter) ==
    LET request_data == RequestData(a.passport_hash, 7)
        nonce == AssertionNonce(auth_data, request_data)
    IN
    IF public_key = "bad_der"                             \* ValueError, 93
    THEN Res(FALSE, stored_counter, "error", TRUE, FALSE)
    ELSE IF public_key = "rsa"                            \* TypeError, 94
    THEN Res(FALSE, stored_counter, "error", TRUE, FALSE)
    ELSE IF ~EcdsaValid(public_key, signature_of(a), nonce)
    THEN Res(FALSE, stored_counter, "invalid_signature", TRUE, TRUE)
    ELSE Res(TRUE, counter, "valid", TRUE, TRUE)

\* lines 81-96: the replay check, then the signature.
SignatureOnly(a, public_key, stored_counter, auth_data, counter) ==
    CheckSignature(a, public_key, stored_counter, auth_data, counter)
SignatureFirst(a, public_key, stored_counter, auth_data, counter) ==
    LET r == CheckSignature(a, public_key, stored_counter, auth_data, counter)
    IN  IF r.ok /\ ReplayDetected(counter, stored_counter)
        THEN Res(FALSE, stored_counter, "replay", TRUE, TRUE)
        ELSE r
CheckCounterThenSignature(a, public_key, stored_counter, auth_data, counter) ==
    IF ReplayDetected(counter, stored_counter)
    THEN Res(FALSE, stored_counter, "replay", FALSE, FALSE)
    ELSE CheckSignature(a, public_key, stored_counter, auth_data, counter)

verify_assertion(a, public_key, stored_counter) ==
    LET auth_data == auth_data_of(a)
        cslice    == Slice(auth_data, 33, 37)
        Err       == Res(FALSE, stored_counter, "error", FALSE, FALSE)
    IN
    IF a.keys # "all" THEN Err                            \* KeyError, 68-70
    ELSE IF ~a.b64 THEN Err                               \* binascii.Error, 73
    ELSE IF a.cbor = "bad" THEN Err                       \* cbor2 decode error, 74
    ELSE IF a.cbor # "map" THEN Err                       \* TypeError, 76
    ELSE IF ~a.has_sig \/ ~a.has_ad THEN Err              \* KeyError, 76-77
    ELSE IF UnpackU32Raises(cslice) THEN Err              \* struct.error, 80
    ELSE CheckCounterThenSignature(a, public_key, stored_counter, auth_data,
                                   UnpackU32(cslice))

\* lines 34-50.  raised = an exception leaves parse_assertion.
parse_assertion(a) ==
    LET auth_data == auth_data_of(a)
        truthy    == a.has_ad /\ Len(auth_data) > 0
        cslice    == Slice(auth_data, 33, 37)
        Raise     == [raised |-> TRUE, counter |-> -1]
    IN
    IF ~a.b64 THEN Raise                                  \* binascii.Error, 36
    ELSE IF a.cbor = "bad" THEN Raise                     \* cbor2 decode error, 37
    ELSE IF a.cbor # "map" THEN Raise                     \* AttributeError, 39
    ELSE IF ~truthy THEN [raised |-> FALSE, counter |-> -1]
    ELSE IF Len(auth_data) <= 32 THEN Raise               \* IndexError, 44
    ELSE IF UnpackU32Raises(cslice) THEN Raise            \* struct.error, 45
    ELSE [raised |-> FALSE, counter |-> UnpackU32(cslice)]


\* -------------------------------------------------------- attestation
None == <<>>

\* int.from_bytes(b, 'big'), saturated at cap: the walker only compares the
\* result with offsets inside the buffer.
RECURSIVE FromBytesAcc(_, _, _)
FromBytesAcc(b, acc, cap) ==
    IF b = <<>> THEN acc
    ELSE LET v == acc * 256 + V(Head(b))
         IN  FromBytesAcc(Tail(b), IF v > cap THEN cap ELSE v, cap)
FromBytes(b, cap) == FromBytesAcc(b, 0, cap)

ConstructedBitOnly(tag) == (tag \div 32) % 2 = 1

\* line 127: tag & 0x20 or tag in (0x30, 0x31, 0x04)
Constructed(tag) == (tag \div 32) % 2 = 1 \/ tag \in {48, 49, 4}

\* lines 100-131.  Scan is the while loop from offset i; None when the loop
\* ends or breaks without a find.
RECURSIVE find_octet32(_, _), Scan(_, _, _)
Scan(b, i, depth) ==
    IF i >= Len(b) THEN None                                   \* 104
    ELSE LET tag == V(b[i + 1])
             i1  == i + 1
    IN  IF i1 >= Len(b) THEN None                              \* 109
    ELSE LET l0   == V(b[i1 + 1])
             i2   == i1 + 1
             long == l0 >= 128                                 \* length & 0x80
             n    == l0 % 128
    IN  IF long /\ i2 + n > Len(b) THEN None                   \* 115
    ELSE LET length == IF long THEN FromBytes(Slice(b, i2, i2 + n), Len(b) + 1)
                               ELSE l0
             i3     == IF long THEN i2 + n ELSE i2
    IN  IF i3 + length > Len(b) THEN None                      \* 119
    ELSE LET value == Slice(b, i3, i3 + length)
             i4    == i3 + length
    IN  IF tag = 4 /\ Len(value) = 32 THEN value               \* 124
        ELSE IF Constructed(tag)
             THEN LET r == find_octet32(value, depth + 1)
                  IN  IF r # None THEN r ELSE Scan(b, i4, depth)
             ELSE Scan(b, i4, depth)
find_octet32(b, depth) ==
    IF depth > 10 \/ Len(b) < 2 THEN None ELSE Scan(b, 0, depth)

\* lines 98-136: raises ValueError when nothing is found.
extract_nonce_raises(payload) == find_octet32(payload, 0) = None
extract_nonce_from_extension(payload) == find_octet32(payload, 0)

\* The challenge of the session, and another one.
Challenge == Bytes(<<99>>)
OtherChallenge == Bytes(<<100>>)

\* line 193
AaguidDev == Bytes(<<97, 112, 112, 97, 116, 116, 101, 115, 116,
                     100, 101, 118, 101, 108, 111, 112>>)
AaguidProd == Bytes(<<97, 112, 112, 97, 116, 116, 101, 115, 116>>) \o Rep(0, 7)
AaguidBad == Rep(0, 16)
ExpectedAaguidProdOnly(env) == AaguidProd
expected_aaguid(env) == IF env = "dev" THEN AaguidDev ELSE AaguidProd

\* lines 227-231: x.to_bytes(32, 'big'), the uncompressed point and keyId
ToBytes32(n) == Rep(0, 31) \o <<B(n)>>
Uncompressed(key) == <<B(4)>> \o ToBytes32(key.x) \o ToBytes32(key.y)
KeyId(key) == Sha256(Uncompressed(key))

\* An attestation, as the fields that decide the code's path:
\*   b64, cbor       as for an assertion
\*   fmt             att['fmt']: "apple-appattest", another string, or "none"
\*   stmt            att['attStmt']: "map", "missing" or "notmap"
\*   n_certs         len(x5c)
\*   ad              att['authData']: "bytes" or "none" (missing)
\*   rp_ok, flags, sign_count, aaguid, cred_len   the authData the device made:
\*                   whether rpIdHash is the app's, the flags byte, the counter,
\*                   which aaguid, and the uint16 before the credentialId
\*   flip            0, or k: byte k of credentialId was changed in transit
\*   ad_len          the length the authData was cut to in transit
\*   env             the env argument
\*   leaf, inter     the two certificates: whether they decode, the leaf's key,
\*                   whether each is signed by its issuer, the nonce extension
\* The credentialId the device writes is the keyId of the leaf key.
LeafKey == [x |-> 17, y |-> 42]

Flip(b) == IF IsConcrete(b) THEN B((V(b) + 1) % 256) ELSE <<b[1], b[2] + 32>>

DeviceAuthData(d) ==
    (IF d.rp_ok THEN Sha256(AppId) ELSE Sha256(Bytes(<<120>>)))
    \o <<B(d.flags)>> \o U32BE(d.sign_count)
    \o (CASE d.aaguid = "dev" -> AaguidDev
          [] d.aaguid = "prod" -> AaguidProd
          [] OTHER -> AaguidBad)
    \o U16BE(d.cred_len) \o KeyId(LeafKey)

AuthDataLen == 55 + 32

\* att['authData'] as submitted: the device's bytes, one byte of the
\* credentialId changed when flip > 0, cut to ad_len bytes.
SubmittedAuthData(d) ==
    LET dev == DeviceAuthData(d)
        alt == IF d.flip > 0
               THEN [dev EXCEPT ![55 + d.flip] = Flip(dev[55 + d.flip])]
               ELSE dev
    IN  Slice(alt, 0, d.ad_len)

\* The nonce the device had certified: over its own authData and the challenge
\* (convention 1), the hashed challenge (convention 2) or another challenge.
CertNonce(d) ==
    CASE d.leaf.ext = "m1" -> Sha256(DeviceAuthData(d) \o Challenge)
      [] d.leaf.ext = "m2" -> Sha256(DeviceAuthData(d) \o Sha256(Challenge))
      [] OTHER -> Sha256(DeviceAuthData(d) \o OtherChallenge)

\* The extension payload: SEQUENCE { [1] { OCTET STRING nonce } }, or one
\* holding a 31-byte OCTET STRING only.
ExtensionPayload(d) ==
    IF d.leaf.ext = "no32"
    THEN Bytes(<<48, 35, 161, 33, 4, 31>>) \o Rep(0, 31)
    ELSE Bytes(<<48, 36, 161, 34, 4, 32>>) \o CertNonce(d)

\* ------------------------------------------------------------- state
VARIABLES
    store,      \* the persisted counter of the credential (the caller's store)
    pc,         \* pc[p]: where run p of main is
    rd,         \* rd[p]: the stored counter run p was started with (--counter)
    req,        \* req[p]: the signed data run p loaded
    res,        \* res[p]: what verify_assertion returned to run p
    acc,        \* history: the accepted verifications, in order
    calls,      \* history: number of runs of main started
    cpc, cin, cout,     \* one direct call of verify_assertion / parse_assertion
    apc, att, errors, ran, result   \* one call of verify_attestation

avars == <<store, pc, rd, req, res, acc, calls>>
cvars == <<cpc, cin, cout>>
tvars == <<apc, att, errors, ran, result>>
vars == <<avars, cvars, tvars>>

Procs == {1, 2}
Counters == 0..MaxCounter

Request(keys, b64, cbor, has_sig, has_ad, ad_len, sign_count, sig_key, sig_count, sig_hash) ==
    [keys |-> keys, b64 |-> b64, cbor |-> cbor, has_sig |-> has_sig,
     has_ad |-> has_ad, ad_len |-> ad_len, sign_count |-> sign_count,
     sig_key |-> sig_key, sig_count |-> sig_count, sig_hash |-> sig_hash,
     passport_hash |-> 1]

\* A well-formed assertion with counter c, signed by key k over counter sc and
\* passportHash h.
Good(c, k, sc, h) == Request("all", TRUE, "map", TRUE, TRUE, 37, c, k, sc, h)

\* Malformed requests: each departs from a well-formed one in one place.
Malformed ==
    {Request(k, TRUE, "map", TRUE, TRUE, 37, 1, "enrolled", 1, 1) :
        k \in Keys \ {"all"}}
    \cup {Request("all", FALSE, "map", TRUE, TRUE, 37, 1, "enrolled", 1, 1)}
    \cup {Request("all", TRUE, c, TRUE, TRUE, 37, 1, "enrolled", 1, 1) :
        c \in CborKinds \ {"map"}}
    \cup {Request("all", TRUE, "map", FALSE, TRUE, 37, 1, "enrolled", 1, 1),
          Request("all", TRUE, "map", TRUE, FALSE, 37, 1, "enrolled", 1, 1)}
    \cup {Request("all", TRUE, "map", TRUE, TRUE, n, 1, "enrolled", 1, 1) :
        n \in {0, 10, 32, 33, 36}}

NoRes == [ok |-> FALSE, counter |-> -1, msg |-> "none",
          key_loaded |-> FALSE, sig_checked |-> FALSE]
NoReq == Good(0, "other", 0, 1)

IdleAssertion ==
    /\ store = 0 /\ acc = <<>> /\ calls = 0
    /\ pc = [p \in Procs |-> "idle"]
    /\ rd = [p \in Procs |-> 0]
    /\ req = [p \in Procs |-> NoReq]
    /\ res = [p \in Procs |-> NoRes]
IdleCall == cpc = "off" /\ cin = <<>> /\ cout = <<>>
IdleAttestation ==
    apc = "off" /\ att = <<>> /\ errors = <<>> /\ ran = <<>> /\ result = <<>>

\* ---------------------------------------------------- runs of main
\* What a run of main is given: signed data from the device (its counter
\* signed by the enrolled key) or from an attacker, and some malformed files.
MainInputs ==
    {Good(c, k, c, 1) : c \in Counters, k \in {"enrolled", "other"}}
    \cup {Request("all", TRUE, "list", TRUE, TRUE, 37, 1, "enrolled", 1, 1),
          Request("all", TRUE, "map", TRUE, TRUE, 10, 1, "enrolled", 1, 1)}

\* main, lines 104-115: the run starts with --counter set to the stored
\* counter and loads the signed data.
MainStart(p) ==
    /\ pc[p] \in {"idle", "crashed"}
    /\ calls < MaxCalls
    /\ \E a \in MainInputs : req' = [req EXCEPT ![p] = a]
    /\ rd' = [rd EXCEPT ![p] = store]
    /\ pc' = [pc EXCEPT ![p] = "loaded"]
    /\ res' = [res EXCEPT ![p] = NoRes]
    /\ calls' = calls + 1
    /\ UNCHANGED <<store, acc, cvars, tvars>>

\* main, line 127: parse_assertion outside any try; an exception ends the run.
MainParse(p) ==
    /\ pc[p] = "loaded"
    /\ pc' = [pc EXCEPT ![p] =
                IF parse_assertion(req[p]).raised THEN "crashed" ELSE "parsed"]
    /\ UNCHANGED <<store, rd, req, res, acc, calls, cvars, tvars>>

\* main, lines 160-164: verify_assertion with the counter the run was given;
\* is_valid is the run's verdict.
MainVerify(p) ==
    /\ pc[p] = "parsed"
    /\ LET r == verify_assertion(req[p], "enrolled", rd[p]) IN
        /\ res' = [res EXCEPT ![p] = r]
        /\ acc' = IF r.ok
                  THEN Append(acc, [count |-> r.counter, read |-> rd[p], by |-> p])
                  ELSE acc
    /\ pc' = [pc EXCEPT ![p] = "verified"]
    /\ UNCHANGED <<store, rd, req, calls, cvars, tvars>>

\* The caller stores the counter the run returned (the script prints it as
\* "New counter"; it writes nothing itself).
Persist(p) ==
    /\ pc[p] = "verified"
    /\ store' = IF res[p].ok THEN res[p].counter ELSE store
    /\ pc' = [pc EXCEPT ![p] = "idle"]
    /\ UNCHANGED <<rd, req, res, acc, calls, cvars, tvars>>

Init == IdleAssertion /\ IdleCall /\ IdleAttestation

Next ==
    \E p \in Procs : MainStart(p) \/ MainParse(p) \/ MainVerify(p) \/ Persist(p)

\* Runs of main in any interleaving.
Spec == Init /\ [][Next]_vars

\* Runs of main one after the other: a run starts only when no other is under way.
Alone(p) == \A q \in Procs \ {p} : pc[q] \in {"idle", "crashed"}
SeqNext ==
    \E p \in Procs :
        Alone(p) /\ (MainStart(p) \/ MainParse(p) \/ MainVerify(p) \/ Persist(p))
SeqSpec == Init /\ [][SeqNext]_vars


\* ------------------------------------------------ verify_attestation
Certs(der1, key, s1, ext, der2, s2) ==
    [leaf |-> [der_ok |-> der1, key |-> key, signed |-> s1, ext |-> ext],
     inter |-> [der_ok |-> der2, signed |-> s2]]

Attestation(b64, cbor, fmt, stmt, n_certs, ad, rp_ok, flags, sign_count, aaguid, cred_len, flip, ad_len, env, certs) ==
    [b64 |-> b64, cbor |-> cbor, fmt |-> fmt, stmt |-> stmt,
     n_certs |-> n_certs, ad |-> ad, rp_ok |-> rp_ok, flags |-> flags,
     sign_count |-> sign_count, aaguid |-> aaguid, cred_len |-> cred_len,
     flip |-> flip, ad_len |-> ad_len, env |-> env,
     leaf |-> certs.leaf, inter |-> certs.inter]

GoodCerts == Certs(TRUE, "ec", TRUE, "m1", TRUE, TRUE)
Envs == {"dev", "prod", "stage"}
Extensions == {"m1", "m2", "wrong", "no32", "none"}

\* Attestations that decode, with every combination of check outcomes.
Checked ==
    {Attestation(TRUE, "map", "apple-appattest", "map", 2, "bytes",
                 rp, fl, sc, ag, 32, fp, AuthDataLen, env,
                 Certs(TRUE, key, s1, ext, TRUE, s2)) :
        rp \in BOOLEAN, fl \in {64, 1}, sc \in {0, 1},
        ag \in {"dev", "prod", "bad"}, fp \in {0, 32}, env \in Envs,
        key \in {"ec", "rsa"}, s1 \in BOOLEAN, s2 \in BOOLEAN,
        ext \in Extensions}

\* Attestations that depart from a valid one in their structure.
Structural ==
    {Attestation(b, c, f, "map", 2, "bytes", TRUE, 64, 0, "dev", 32, 0,
                 AuthDataLen, "dev", GoodCerts) :
        b \in BOOLEAN, c \in CborKinds, f \in {"apple-appattest", "packed", "none"}}
    \cup {Attestation(TRUE, "map", "apple-appattest", st, n, ad, TRUE, 64, sc,
                      "dev", 32, 0, AuthDataLen, "dev",
                      Certs(d1, key, TRUE, "m1", d2, TRUE)) :
        st \in {"map", "missing", "notmap"}, n \in 0..MaxChain,
        ad \in {"bytes", "none"}, sc \in {0, 1}, d1 \in BOOLEAN,
        d2 \in BOOLEAN, key \in {"ec", "rsa"}}
    \cup {Attestation(TRUE, "map", "apple-appattest", "map", n, "bytes", TRUE,
                      64, 0, "dev", cl, fp, len, "dev", GoodCerts) :
        n \in 2..MaxChain, cl \in {32, 33}, fp \in {0, 1},
        len \in {0, 32, 33, 36, 37, 54, 55, 86, AuthDataLen}}

AttInputs == Checked \cup Structural

VerificationResult(ok, key, key_id, credential_id, errs) ==
    [ok |-> ok, public_key |-> key, key_id |-> key_id,
     credential_id |-> credential_id, errors |-> errs]

\* lines 172-177, the fields of auth_data
sign_count_of(auth_data) == UnpackU32(Slice(auth_data, 33, 37))
cred_id_len_of(auth_data) == UnpackU16(Slice(auth_data, 53, 55))
credential_id_of(auth_data) ==
    Slice(auth_data, 55, 55 + cred_id_len_of(auth_data))
ParseRaises(d) ==
    LET auth_data == SubmittedAuthData(d)
    IN  \/ d.ad = "none"                                   \* TypeError, 172
        \/ Len(auth_data) <= 32                            \* IndexError, 173
        \/ UnpackU32Raises(Slice(auth_data, 33, 37))       \* struct.error, 174
        \/ UnpackU16Raises(Slice(auth_data, 53, 55))       \* struct.error, 176

\* A step of the function: record it, add its error, go on.
Step(here, failed, msg, next) ==
    /\ apc = here
    /\ ran' = Append(ran, here)
    /\ errors' = IF failed THEN Append(errors, msg) ELSE errors
    /\ apc' = next
    /\ UNCHANGED <<att, result, avars, cvars>>

\* A return before the end: lines 161, 169, 225.
Return(here, msg, credential_id) ==
    /\ apc = here
    /\ ran' = Append(ran, here)
    /\ errors' = Append(errors, msg)
    /\ result' = VerificationResult(FALSE, None, None, credential_id, errors')
    /\ apc' = "done"
    /\ UNCHANGED <<att, avars, cvars>>

\* lines 280-282: an exception inside the try
Raise(here) == Return(here, "Parse error", None)

\* line 159
FormatMismatch(fmt) == fmt # "apple-appattest"
\* lines 155-161
Decode ==
    IF ~att.b64 \/ att.cbor # "map" THEN Raise("decode")
    ELSE IF FormatMismatch(att.fmt) THEN Return("decode", "Invalid format", None)
    ELSE Step("decode", FALSE, "", "chain")

\* line 167
ChainShorterThanOne(n) == n < 1
ChainTooShort(n) == n < 2
\* lines 163-169; attStmt missing gives {} and x5c [].
x5c_len(d) == IF d.stmt = "missing" THEN 0 ELSE d.n_certs
ChainLength ==
    IF att.stmt = "notmap" THEN Raise("chain")
    ELSE IF ChainTooShort(x5c_len(att))
         THEN Return("chain", "Certificate chain too short", None)
    ELSE Step("chain", FALSE, "", "parse")

\* lines 172-177
ParseAuthData ==
    IF ParseRaises(att) THEN Raise("parse")
    ELSE Step("parse", FALSE, "", "rpIdHash")

\* lines 180-182
RpIdHashMismatch(auth_data) == Slice(auth_data, 0, 32) # Sha256(AppId)
CheckRpIdHash ==
    Step("rpIdHash", RpIdHashMismatch(SubmittedAuthData(att)),
         "rpIdHash mismatch", "flags")

\* lines 185-186: not (flags & 0x40)
AtFlagNotSet(flags) == (flags \div 64) % 2 = 0
CheckFlags ==
    Step("flags", AtFlagNotSet(V(SubmittedAuthData(att)[33])),
         "AT flag not set", "signCount")

\* lines 189-190
SignCountAny(sign_count) == FALSE
SignCountNonZero(sign_count) == sign_count # 0
CheckSignCount ==
    Step("signCount", SignCountNonZero(sign_count_of(SubmittedAuthData(att))),
         "signCount should be 0", "aaguid")

\* lines 193-195
CheckAaguid ==
    Step("aaguid",
         Slice(SubmittedAuthData(att), 37, 53) # expected_aaguid(att.env),
         "aaguid mismatch", "load")

\* lines 198-200
LoadCerts ==
    IF x5c_len(att) < 2 THEN Raise("load")              \* IndexError, 198-199
    ELSE IF ~att.leaf.der_ok \/ ~att.inter.der_ok THEN Raise("load")
    ELSE Step("load", FALSE, "", "intermediate")

\* lines 203-210
VerifyIntermediate ==
    Step("intermediate", ~att.inter.signed,
         "Intermediate cert signature invalid", "leaf")

\* lines 212-219
VerifyLeaf ==
    Step("leaf", ~att.leaf.signed, "Leaf cert signature invalid", "key")

\* lines 222-232
ExtractKey ==
    IF att.leaf.key # "ec"
    THEN Return("key", "Leaf cert public key is not EC",
                credential_id_of(SubmittedAuthData(att)))
    ELSE Step("key", FALSE, "", "binding")

\* lines 235-236
BindingMismatch(credential_id, key_id) == credential_id # key_id
CheckBinding ==
    Step("binding",
         BindingMismatch(credential_id_of(SubmittedAuthData(att)), KeyId(LeafKey)),
         "credentialId != SHA256(publicKey)", "nonce")

\* lines 246-256
NonceFirstOnly(cert_nonce, auth_data, challenge) ==
    cert_nonce # Sha256(auth_data \o challenge)
NonceMismatch(cert_nonce, auth_data, challenge) ==
    /\ cert_nonce # Sha256(auth_data \o challenge)
    /\ cert_nonce # Sha256(auth_data \o Sha256(challenge))
\* lines 239-266
CheckNonce ==
    IF att.leaf.ext = "none"
    THEN Step("nonce", TRUE, "Nonce extension not found", "finish")
    ELSE IF extract_nonce_raises(ExtensionPayload(att))
    THEN Step("nonce", TRUE, "Nonce verification error", "finish")
    ELSE Step("nonce",
              NonceMismatch(extract_nonce_from_extension(ExtensionPayload(att)),
                            SubmittedAuthData(att), Challenge),
              "Nonce mismatch", "finish")

\* line 268
OkAtMostOne(errs) == Len(errs) <= 1
OkFromErrors(errs) == Len(errs) = 0
\* lines 268-278
Finish ==
    /\ apc = "finish"
    /\ ran' = Append(ran, "finish")
    /\ result' = VerificationResult(OkFromErrors(errors), LeafKey, KeyId(LeafKey),
                                    credential_id_of(SubmittedAuthData(att)),
                                    errors)
    /\ apc' = "done"
    /\ UNCHANGED <<att, errors, avars, cvars>>

AttInit ==
    /\ IdleAssertion /\ IdleCall
    /\ apc = "decode" /\ errors = <<>> /\ ran = <<>> /\ result = None
    /\ att \in AttInputs

AttNext ==
    \/ Decode \/ ChainLength \/ ParseAuthData \/ CheckRpIdHash \/ CheckFlags
    \/ CheckSignCount \/ CheckAaguid \/ LoadCerts \/ VerifyIntermediate
    \/ VerifyLeaf \/ ExtractKey \/ CheckBinding \/ CheckNonce \/ Finish

AttSpec == AttInit /\ [][AttNext]_vars

\* ------------------------------------------- direct calls of the functions
CounterValues == Counters \cup {BigCounter}
StoredValues == {-1} \cup Counters \cup {BigCounter - 1, BigCounter}

\* Well-formed assertions with every counter, signed by the enrolled key or by
\* another over this or another counter and payload; and the malformed ones.
CallRequests ==
    {Good(c, k, sc, h) : c \in CounterValues, k \in {"enrolled", "other"},
                         sc \in CounterValues, h \in {1, 2}}
    \cup Malformed

CallInit ==
    /\ IdleAssertion /\ IdleAttestation
    /\ cpc = "start" /\ cout = <<>>
    /\ cin \in [a : CallRequests, public_key : PublicKeys,
                stored_counter : StoredValues]

\* verify_assertion(signed_data, public_key_bytes, stored_counter)
CallVerify ==
    /\ cpc = "start"
    /\ cout' = verify_assertion(cin.a, cin.public_key, cin.stored_counter)
    /\ cpc' = "verified"
    /\ UNCHANGED <<cin, avars, tvars>>

\* parse_assertion(assertion_b64)
CallParse ==
    /\ cpc = "start"
    /\ cout' = parse_assertion(cin.a)
    /\ cpc' = "parsed"
    /\ UNCHANGED <<cin, avars, tvars>>

CallNext == CallVerify \/ CallParse
CallSpec == CallInit /\ [][CallNext]_vars


\* ------------------------------- direct calls of extract_nonce_from_extension
MaxLayers == 11

\* The length octets of an element: short form, or long form with one or two
\* length bytes.
LengthOctets(n, form) ==
    CASE form = "short" -> <<B(n)>>
      [] form = "long1" -> <<B(129), B(n)>>
      [] OTHER          -> <<B(130), B(0), B(n)>>
Tlv(tag, content, form) ==
    <<B(tag)>> \o LengthOctets(Len(content), form) \o content

\* content wrapped in k nested SEQUENCE layers
RECURSIVE Wrapped(_, _, _)
Wrapped(content, k, form) ==
    IF k = 0 THEN content ELSE Tlv(48, Wrapped(content, k - 1, form), form)

\* The known 32-byte values: a digest, 32 bytes that all read as the OCTET
\* STRING tag, and 32 different bytes.
KnownValue(v) ==
    CASE v = "digest" -> Sha256(Challenge)
      [] v = "fours"  -> Rep(4, 32)
      [] OTHER        -> [i \in 1..32 |-> B(i)]
ValueNames == {"digest", "fours", "ramp"}
Forms == {"short", "long1", "long2"}

\* The innermost element of a payload:
\*   octet32       OCTET STRING of 32 bytes holding the value
\*   encapsulated  OCTET STRING of 34 bytes whose content bytes are the
\*                 encoding of such an OCTET STRING
\*   octet0/31/33  OCTET STRING of 0, of the first 31, of the 32 bytes and one
\*   overrun       OCTET STRING header of length 32 with 31 bytes behind it
\*   int32         INTEGER of 32 bytes
\*   empty         nothing
Innermost(d) ==
    LET val == KnownValue(d.v)
    IN  CASE d.inner = "octet32"      -> Tlv(4, val, d.form)
          [] d.inner = "encapsulated" -> Tlv(4, Tlv(4, val, d.form), d.form)
          [] d.inner = "octet0"       -> Tlv(4, <<>>, d.form)
          [] d.inner = "octet31"      -> Tlv(4, Slice(val, 0, 31), d.form)
          [] d.inner = "octet33"      -> Tlv(4, val \o <<B(0)>>, d.form)
          [] d.inner = "overrun"      ->
                 <<B(4)>> \o LengthOctets(32, d.form) \o Slice(val, 0, 31)
          [] d.inner = "int32"        -> Tlv(2, val, d.form)
          [] OTHER                    -> <<>>
Payload(d) == Wrapped(Innermost(d), d.k, d.form)

\* The contents of the OCTET STRINGs of other lengths are concrete bytes.
Payloads ==
    [inner : {"octet32", "encapsulated", "int32"}, v : ValueNames,
     k : 0..MaxLayers, form : Forms]
    \cup [inner : {"octet0", "octet31", "octet33", "overrun", "empty"},
          v : {"fours", "ramp"}, k : 0..MaxLayers, form : Forms]

ExtInit ==
    /\ IdleAssertion /\ IdleAttestation
    /\ cpc = "payload" /\ cout = <<>>
    /\ cin \in Payloads

\* extract_nonce_from_extension(payload)
CallExtract ==
    /\ cpc = "payload"
    /\ cout' = [raised |-> extract_nonce_raises(Payload(cin)),
                nonce  |-> extract_nonce_from_extension(Payload(cin))]
    /\ cpc' = "extracted"
    /\ UNCHANGED <<cin, avars, tvars>>

ExtNext == CallExtract
ExtSpec == ExtInit /\ [][ExtNext]_vars


\* ------------------------------------------ find_octet32, one step at a time
\* cin is the byte string; cout holds the call stack of find_octet32 (one
\* frame per call: b, i, depth and where the call is), the value being
\* returned, and what the last loop iteration did.
MaxBytes == 3

\* Bytes that are tags, short lengths and long-form length bytes.
Alphabet == {0, 1, 2, 4, 48, 128, 129, 130, 255}
ShortStrings == UNION {[1..n -> Alphabet] : n \in 0..MaxBytes}

\* Payloads as above behind lead NULL elements, the last cut bytes missing.
Truncated(d, lead, cut) ==
    LET whole == [j \in 1..(2 * lead) |-> B(IF j % 2 = 1 THEN 5 ELSE 0)]
                 \o Payload(d)
    IN  Slice(whole, 0, IF cut > Len(whole) THEN 0 ELSE Len(whole) - cut)
WalkPayloads ==
    [inner : {"octet32", "encapsulated", "int32", "octet0", "octet31",
              "octet33", "overrun", "empty"},
     v : {"fours", "ramp"}, k : {0, 1, 10, MaxLayers}, form : {"short", "long1"}]
WalkInputs ==
    {Bytes(s) : s \in ShortStrings}
    \cup {Truncated(d, lead, cut) : d \in WalkPayloads, lead \in {0, 2},
                                    cut \in 0..2}

Frame(b, i, depth, at) == [b |-> b, i |-> i, depth |-> depth, at |-> at]
NoIteration == [kind |-> "none", long |-> FALSE, adv |-> 0, level |-> 0]

\* b[i]: an index past the end raises IndexError (0 stands for the value).
InBounds(b, i) == i < Len(b)
At(b, i) == IF InBounds(b, i) THEN V(b[i + 1]) ELSE 0

\* lines 115 and 119: i + n > len(b)
PastEndLax(i, n, b) == i + n > Len(b) + 1
PastEnd(i, n, b) == i + n > Len(b)

\* lines 107-127: one pass through the loop body from offset i.  kind is how
\* it ends: a break, the return at 125, the call at 128 or the next
\* iteration; oob tells whether an index or a slice went past the buffer.
Body(b, i) ==
    LET tag  == At(b, i)                                       \* 107
        i1   == i + 1
        l0   == At(b, i1)                                      \* 111
        i2   == i1 + 1
        long == l0 >= 128                                      \* 113
        n    == l0 % 128
        length == IF long THEN FromBytes(Slice(b, i2, i2 + n), Len(b) + 1)
                          ELSE l0                              \* 117
        i3   == IF long THEN i2 + n ELSE i2
        value == Slice(b, i3, i3 + length)                     \* 121
        i4   == i3 + length
        Out(kind, to, v, oob) ==
            [kind |-> kind, i |-> to, value |-> v, long |-> long, oob |-> oob]
    IN  IF i1 >= Len(b)                                        \* 109
        THEN [kind |-> "break109", i |-> i1, value |-> None, long |-> FALSE,
              oob |-> ~InBounds(b, i)]
        ELSE IF long /\ PastEnd(i2, n, b)                      \* 115
        THEN Out("break115", i2, None, ~InBounds(b, i))
        ELSE IF PastEnd(i3, length, b)                         \* 119
        THEN Out("break119", i3, None,
                 ~InBounds(b, i) \/ (long /\ i2 + n > Len(b)))
        ELSE Out(IF tag = 4 /\ Len(value) = 32 THEN "found"    \* 124
                 ELSE IF Constructed(tag) THEN "recurse"       \* 127
                 ELSE "next",
                 i4, value,
                 \/ ~InBounds(b, i)
                 \/ (long /\ i2 + n > Len(b))
                 \/ i3 + length > Len(b))

Breaks == {"break109", "break115", "break119"}

Top == cout.stack[Len(cout.stack)]
Below == SubSeq(cout.stack, 1, Len(cout.stack) - 1)
Running == cpc = "walking" /\ ~cout.pending /\ cout.stack # <<>>

\* return r from the call on top of the stack
ReturnValue(r) == [cout EXCEPT !.stack = Below, !.pending = TRUE, !.result = r]

WalkInit ==
    /\ IdleAssertion /\ IdleAttestation
    /\ cpc = "walking"
    /\ cin \in WalkInputs
    /\ cout = [stack |-> <<Frame(cin, 0, 0, "entry")>>, pending |-> FALSE,
               result |-> None, raised |-> FALSE, oob |-> FALSE,
               last |-> NoIteration]

\* lines 100-103: the entry of a call
Enter ==
    /\ Running /\ Top.at = "entry"
    /\ cout' = IF Top.depth > 10 \/ Len(Top.b) < 2
               THEN ReturnValue(None)
               ELSE [cout EXCEPT !.stack[Len(cout.stack)].at = "loop"]
    /\ UNCHANGED <<cpc, cin, avars, tvars>>

\* lines 104-128: one iteration of the loop
Iterate ==
    /\ Running /\ Top.at = "loop" /\ Top.i < Len(Top.b)
    /\ LET o    == Body(Top.b, Top.i)
           h    == Len(cout.stack)
           last == [kind |-> o.kind, long |-> o.long, adv |-> o.i - Top.i,
                    level |-> h]
           seen == [cout EXCEPT !.last = last, !.oob = cout.oob \/ o.oob]
       IN  cout' =
             CASE o.kind \in Breaks ->
                    [seen EXCEPT !.stack = Below, !.pending = TRUE,
                                 !.result = None]
               [] o.kind = "found" ->
                    [seen EXCEPT !.stack = Below, !.pending = TRUE,
                                 !.result = o.value]
               [] o.kind = "recurse" ->
                    [seen EXCEPT !.stack =
                        Append(Below, Frame(Top.b, o.i, Top.depth, "called"))
                        \o <<Frame(o.value, 0, Top.depth + 1, "entry")>>]
               [] OTHER ->
                    [seen EXCEPT !.stack[h].i = o.i]
    /\ UNCHANGED <<cpc, cin, avars, tvars>>

\* lines 104 and 131: the loop ends
LoopExit ==
    /\ Running /\ Top.at = "loop" /\ Top.i >= Len(Top.b)
    /\ cout' = ReturnValue(None)
    /\ UNCHANGED <<cpc, cin, avars, tvars>>

\* lines 128-130: the caller gets the result of the call it made
Resume ==
    /\ cpc = "walking" /\ cout.pending /\ cout.stack # <<>>
    /\ Top.at = "called"
    /\ cout' = IF cout.result # None
               THEN [cout EXCEPT !.stack = Below]
               ELSE [cout EXCEPT !.pending = FALSE,
                                 !.stack[Len(cout.stack)].at = "loop"]
    /\ UNCHANGED <<cpc, cin, avars, tvars>>

\* lines 133-136: the outermost call has returned
WalkFinish ==
    /\ cpc = "walking" /\ cout.pending /\ cout.stack = <<>>
    /\ cout' = [cout EXCEPT !.pending = FALSE,
                            !.raised = (cout.result = None)]
    /\ cpc' = "done"
    /\ UNCHANGED <<cin, avars, tvars>>

WalkNext == Enter \/ Iterate \/ LoopExit \/ Resume \/ WalkFinish
WalkSpec == WalkInit /\ [][WalkNext]_vars
\* A call that has started keeps running: nothing else schedules it.
WalkLive == WalkSpec /\ WF_vars(WalkNext)


\* ------------------------------------------------------------ claims
\* The signature of a request is the enrolled key's over the request's own
\* authenticatorData and payload.
CorrectSignature(a) ==
    a.sig_key = "enrolled" /\ a.sig_count = a.sign_count
    /\ a.sig_hash = a.passport_hash

\* C1: verify_assertion accepts only if signCount > stored_counter: a
\* well-formed assertion with signCount <= stored_counter (equal included) is
\* rejected as a replay, and one with signCount = stored_counter + 1 and a
\* correct signature is accepted and returns newCounter = signCount.
C1_StrictlyGreaterCounter ==
    cpc = "verified" =>
        LET c == cin.a.sign_count
            s == cin.stored_counter
        IN  /\ cout.ok => WellFormed(cin.a) /\ c > s
            /\ WellFormed(cin.a) /\ c <= s => ~cout.ok /\ cout.msg = "replay"
            /\ (WellFormed(cin.a) /\ c = s + 1 /\ CorrectSignature(cin.a)
                /\ cin.public_key = "enrolled")
               => cout.ok /\ cout.counter = c /\ cout.msg = "valid"

C1_Witness ==
    /\ cpc = "verified" /\ cout.ok
    /\ cin.a.sign_count = BigCounter
    /\ cin.stored_counter + 1 = cin.a.sign_count
    /\ cout.counter = BigCounter

\* C2: of the verifications that read the same stored counter, at most one is
\* accepted when the later carries the same or a stale signCount.
C2_AtMostOneAccepted ==
    \A i, j \in DOMAIN acc :
        (i < j /\ acc[i].read = acc[j].read) => acc[j].count > acc[i].count

\* C3: in runs of main one after the other, each storing the returned counter
\* before the next starts, the accepted signCounts are strictly increasing, so
\* no assertion is accepted twice.
C3_AcceptedStrictlyIncreasing ==
    \A i, j \in DOMAIN acc : i < j => acc[i].count < acc[j].count

C3_Witness ==
    /\ Len(acc) = 2
    /\ \E p \in Procs :
        /\ pc[p] = "verified" /\ res[p].msg = "replay"
        /\ req[p].sign_count = acc[1].count
        /\ CorrectSignature(req[p]) /\ rd[p] = acc[2].count

\* C9: for a well-formed assertion with signCount <= stored_counter the result
\* is the replay rejection whatever the signature and the public key are, and
\* the key is neither loaded nor used.
C9_ReplayBeforeSignature ==
    (cpc = "verified" /\ WellFormed(cin.a)
     /\ cin.a.sign_count <= cin.stored_counter)
    => /\ ~cout.ok /\ cout.msg = "replay"
       /\ cout.counter = cin.stored_counter
       /\ ~cout.key_loaded /\ ~cout.sig_checked

C9_Witness ==
    /\ cpc = "verified" /\ WellFormed(cin.a)
    /\ cin.a.sign_count <= cin.stored_counter
    /\ cin.public_key = "bad_der" /\ ~CorrectSignature(cin.a)
    /\ cout.msg = "replay"

\* C10: on malformed input verify_assertion and parse_assertion end in an
\* error result; no exception leaves them.
C10_NoExceptionEscapes ==
    /\ (cpc = "verified" /\ ~WellFormed(cin.a)) => cout.msg = "error"
    /\ (cpc = "parsed" /\ ~WellFormed(cin.a)) => ~cout.raised


\* ------------------------------------------------ claims: attestation
Decodes(d) ==
    d.b64 /\ d.cbor = "map" /\ d.fmt = "apple-appattest" /\ d.stmt # "notmap"
ChainLen(d) == IF d.stmt = "missing" THEN 0 ELSE d.n_certs
Parses(d) == d.ad = "bytes" /\ d.ad_len >= 55
FlagSet(d) == (d.flags \div 64) % 2 = 1
EnvAaguid(env) == IF env = "dev" THEN "dev" ELSE "prod"
Altered(d) == d.flip > 0 \/ d.ad_len < AuthDataLen

\* C4: on every return path ok is true iff errors is empty.
C4_OkIffNoErrors ==
    apc = "done" => (result.ok <=> result.errors = <<>>)

C4_Witness ==
    /\ apc = "done" /\ "finish" \in {ran[i] : i \in DOMAIN ran}
    /\ Len(result.errors) = 1 /\ ~result.ok

\* C5: ok = true only if every check passed: rpIdHash, the AT flag, signCount
\* 0, the aaguid of the environment, both chain signatures, credentialId =
\* keyId = SHA-256(0x04||x||y), and the certified nonce equal to one of the two
\* candidates over the submitted authData.
C5_OkOnlyIfAllChecksPass ==
    (apc = "done" /\ result.ok) =>
        LET auth_data == SubmittedAuthData(att) IN
        /\ att.rp_ok /\ Slice(auth_data, 0, 32) = Sha256(AppId)
        /\ FlagSet(att)
        /\ att.sign_count = 0
        /\ att.env = "dev" => att.aaguid = "dev"
        /\ att.env = "prod" => att.aaguid = "prod"
        /\ att.inter.signed /\ att.leaf.signed
        /\ att.leaf.key = "ec"
        /\ result.credential_id = result.key_id
        /\ result.key_id = Sha256(<<B(4)>> \o ToBytes32(LeafKey.x)
                                  \o ToBytes32(LeafKey.y))
        /\ att.leaf.ext \in {"m1", "m2"}
        /\ CertNonce(att) \in {Sha256(auth_data \o Challenge),
                               Sha256(auth_data \o Sha256(Challenge))}

C5_Witness ==
    apc = "done" /\ result.ok /\ att.leaf.ext = "m2" /\ att.env = "prod"

\* C6 as claimed: a chain of any length other than 2 is rejected at once with
\* the chain-length error and no later check runs.
C6_RejectsAllButTwo ==
    (apc = "done" /\ Decodes(att) /\ ChainLen(att) # 2) =>
        /\ result.errors = <<"Certificate chain too short">>
        /\ ran = <<"decode", "chain">>

\* C6 amended: a chain of fewer than 2 certificates is rejected at once with
\* the chain-length error alone and no later check runs; a chain of 2 or more
\* passes the length check and authData parsing is the next step.
C6_RejectsShorterThanTwo ==
    (apc = "done" /\ Decodes(att)) =>
        /\ ChainLen(att) < 2 =>
            /\ ~result.ok
            /\ result.errors = <<"Certificate chain too short">>
            /\ ran = <<"decode", "chain">>
        /\ ChainLen(att) >= 2 =>
            /\ \A i \in DOMAIN result.errors :
                  result.errors[i] # "Certificate chain too short"
            /\ Len(ran) >= 3 /\ ran[3] = "parse"

C6_Witness ==
    /\ apc = "done" /\ Decodes(att) /\ ChainLen(att) = 1 /\ att.stmt = "map"
    /\ result.errors = <<"Certificate chain too short">>

\* An attestation on which every check passes when nothing is altered.
ValidBase(d) ==
    /\ Decodes(d) /\ d.stmt = "map" /\ d.n_certs >= 2
    /\ d.ad = "bytes" /\ d.ad_len = AuthDataLen /\ d.cred_len = 32
    /\ d.rp_ok /\ FlagSet(d) /\ d.sign_count = 0 /\ d.aaguid = EnvAaguid(d.env)
    /\ d.leaf.der_ok /\ d.inter.der_ok /\ d.leaf.key = "ec"
    /\ d.leaf.signed /\ d.inter.signed /\ d.leaf.ext \in {"m1", "m2"}

\* C7 as claimed: with one byte of the credentialId changed the only error is
\* the credential-binding mismatch.
C7_OnlyBindingError ==
    (apc = "done" /\ ValidBase(att) /\ att.flip > 0) =>
        result.errors = <<"credentialId != SHA256(publicKey)">>

\* C7 amended: an attestation that verifies with ok = true fails, once one
\* byte of the credentialId in authData is changed, with exactly two errors,
\* the credential-binding mismatch and the nonce mismatch (the nonce is a hash
\* over the whole authData); the two chain signature checks add no error.
C7_BindingAndNonceErrors ==
    (apc = "done" /\ ValidBase(att)) =>
        /\ att.flip = 0 => result.ok /\ result.errors = <<>>
        /\ att.flip > 0 =>
            /\ ~result.ok
            /\ result.errors = <<"credentialId != SHA256(publicKey)",
                                 "Nonce mismatch">>
            /\ ran = <<"decode", "chain", "parse", "rpIdHash", "flags",
                       "signCount", "aaguid", "load", "intermediate", "leaf",
                       "key", "binding", "nonce", "finish">>

C7_Witness ==
    /\ apc = "done" /\ ValidBase(att) /\ att.flip > 0
    /\ Len(result.errors) = 2

\* The errors of the checks, from the fields of the attestation.
E(failed, msg) == IF failed THEN <<msg>> ELSE <<>>
FieldErrors(d) ==
    E(~d.rp_ok, "rpIdHash mismatch") \o E(~FlagSet(d), "AT flag not set")
    \o E(d.sign_count # 0, "signCount should be 0")
    \o E(d.aaguid # EnvAaguid(d.env), "aaguid mismatch")
ChainErrors(d) ==
    E(~d.inter.signed, "Intermediate cert signature invalid")
    \o E(~d.leaf.signed, "Leaf cert signature invalid")
NonceErrors(d) ==
    CASE d.leaf.ext = "none" -> <<"Nonce extension not found">>
      [] d.leaf.ext = "no32" -> <<"Nonce verification error">>
      [] d.leaf.ext = "wrong" -> <<"Nonce mismatch">>
      [] OTHER -> E(Altered(d), "Nonce mismatch")
KeyErrors(d) ==
    E(Altered(d), "credentialId != SHA256(publicKey)") \o NonceErrors(d)

FieldSteps == <<"decode", "chain", "parse", "rpIdHash", "flags", "signCount",
                "aaguid", "load">>
ChainSteps == <<"intermediate", "leaf", "key">>
KeySteps == <<"binding", "nonce", "finish">>

PassesStructure(d) == Decodes(d) /\ ChainLen(d) >= 2 /\ Parses(d)

C14_ReturnedCounterNeverLower ==
    cpc = "verified" =>
        /\ cout.counter >= cin.stored_counter
        /\ ~cout.ok => cout.counter = cin.stored_counter
        /\ cout.ok => /\ cout.counter = cin.a.sign_count
                      /\ cout.counter > cin.stored_counter

C14_Witness ==
    /\ cpc = "verified" /\ cout.msg = "invalid_signature"
    /\ cin.a.sign_count > cin.stored_counter
    /\ cout.counter = cin.stored_counter


\* ------------------------------------------- claims: authData parsing
\* C13: parsing authenticatorData fails with an error whenever the buffer is
\* shorter than a required offset, both below 55 bytes and from 55 bytes up
\* to 55 + credentialIdLen; no credentialId is produced whose length differs
\* from the uint16 at bytes 53..54.
C13_ShortAuthDataFailsToParse ==
    (apc = "done" /\ Decodes(att) /\ ChainLen(att) >= 2 /\ att.ad = "bytes") =>
        /\ att.ad_len < 55 + att.cred_len =>
              ~result.ok /\ result.errors = <<"Parse error">>
        /\ result.credential_id # None =>
              Len(result.credential_id) = att.cred_len


WalkSafe ==
    cpc \in {"walking", "done"} =>
        /\ ~cout.oob
        /\ Len(cout.stack) <= 12
        /\ \A j \in 1..Len(cout.stack) :
              /\ cout.stack[j].depth = j - 1
              /\ cout.stack[j].at # "entry" => cout.stack[j].depth <= 10
              /\ cout.stack[j].i <= Len(cout.stack[j].b)
        /\ cout.last.kind \in {"next", "recurse", "found"} => cout.last.adv >= 2
        /\ cout.last.kind \in Breaks => Len(cout.stack) < cout.last.level
        /\ cpc = "done" =>
              /\ cout.stack = <<>>
              /\ cout.raised = (cout.result = None)
              /\ ~cout.raised => Len(cout.result) = 32
              /\ cout.result = find_octet32(cin, 0)

\* C12: find_octet32 terminates on every byte string: each loop iteration
\* advances the offset by at least 2, recursion stops past depth 10, and a
\* length field that points past the end of the buffer stops the scan of that
\* level without reading out of bounds and without raising, so the only
\* failure is nonce-not-found.
C12_WalkerTerminates == []WalkSafe /\ <>(cpc = "done")
C12_Witness ==
    /\ cpc = "done" /\ cout.raised
    /\ cout.last.kind = "break119" /\ cout.last.long
    /\ cout.last.level = 11

=============================================================================
